---------------------------- MODULE Spec2Model ----------------------------
(***************************************************************************)
(* A model of the RealtimeChat session manager of src/src/index.ts.        *)
(*                                                                         *)
(* The fields of the RealtimeChat object are the variables of the same     *)
(* name.  Every handler is an operator from the object's state (a record   *)
(* of those fields, Self) to the state it leaves behind; an action applies *)
(* one handler to one inbound event, sink event, timer expiry or HTTP      *)
(* completion and commits the record.  A handler that awaits an HTTP call  *)
(* is cut at the await: the part before it runs with the event, the part   *)
(* after it runs when the call resolves or rejects (HttpResolve,           *)
(* HttpReject), and anything may run in between, as on Node's event loop.  *)
(*                                                                         *)
(* The remote engine, the HTTP collaborators and the playback sink are the *)
(* environment: they choose the events, within the bounds below.           *)
(***************************************************************************)
EXTENDS Integers, Sequences, FiniteSets, TLC

(* ------------------------------ bounds --------------------------------- *)
\* function calls the engine makes in one run (call ids 1..MaxCalls)
MaxCalls == 2
\* user items the engine creates in one run
MaxUserItems == 2
\* assistant items the engine creates in one run
MaxAssistantItems == 2
\* responses the engine starts on its own (server voice-activity detection)
MaxVadResponses == 1
\* HTTP calls awaited at the same time
MaxHttp == 2
\* audio deltas the engine sends in one run
MaxAudioDeltas == 2
\* playback sinks opened in one run
MaxSinks == 2

(* --------------------------- program constants ------------------------- *)
\* microphone chunks sent in one run
MaxMicChunks == 1

\* getLastNMessages(5)
LastN == 5

UPDATE_TOOLS_LIST == "update_tools_list"
\* the one tool of the external catalogue, and the names the engine calls
DynamicToolNames == {"lookup"}
FunctionNames == {UPDATE_TOOLS_LIST} \cup DynamicToolNames
\* what the tool search may answer: nothing, the tool of the catalogue, the
\* tool without a tool id, or an entry that bears the reserved name
SearchResults ==
    {<<>>,
     <<[name |-> "lookup", hasToolId |-> TRUE]>>,
     <<[name |-> "lookup", hasToolId |-> FALSE]>>,
     <<[name |-> UPDATE_TOOLS_LIST, hasToolId |-> TRUE]>>}

\* the arguments of a call as the engine streams them: one delta, then the
\* whole string again in the done event
ArgsDelta == "{\"q\":"
ArgsFull == "{\"q\":1}"
\* the transcript of a user utterance
Utterance == "hi"
\* the text of an assistant part as the engine streams it: the deltas in
\* order, then the whole text again in the done event
Pieces == <<"He", "llo">>
WholeText == "Hello"
\* the content indexes the engine uses
ContentIndexes == {0, 1}
\* the kinds of part the engine adds to an assistant message
PartKinds == {"text", "audio"}
\* byte lengths of the audio deltas, and of the chunks a sink drains
DeltaLengths == {50}
ChunkLengths == {20, 30}

VARIABLES
    \* ---- fields of RealtimeChat (src/src/index.ts:20-53)
    conversationHistory,      \* Seq of transcript entries
    conversationItems,        \* Map item id -> item
    functionCalls,            \* Map call id -> [item_id, function_name, arguments]
    pendingFunctionCalls,     \* Map call id -> closure, in insertion order
    dynamicTools,             \* Map function name -> tool: its key set
    responseInProgress,
    responseQueue,            \* Seq of response.create events
    eventCounter,
    isAssistantResponding,
    isPlayingAudio,
    isUserSpeaking,
    inactivityTimer,          \* TRUE: a timeout is scheduled
    audioDone,
    lastAssistantItemId,
    assistantAudioContentIndex,
    assistantAudioDurationMs,          \* in ticks of 1/48 ms
    assistantAudioPlaybackDurationMs,  \* in ticks of 1/48 ms
    truncatedAssistantItemIds,
    audioStream,              \* index into sinks, 0 = null
    speakerInstance,          \* index into sinks, 0 = null
    \* ---- what the object has handed to its collaborators
    sent,                     \* events written to the socket, in order
    httpTasks,                \* awaited HTTP calls, each with its continuation
    sinks,                    \* the PassThrough/Speaker pairs created so far
    process,                  \* "running", "exited" (process.exit), "crashed"
    \* ---- the remote engine
    engineActive,             \* origin of the engine's active response
    engineConsumed,           \* response.create events the engine has taken
    vadResponses,             \* responses the engine started on its own
    callStage,                \* call id -> "none", "created", "streaming", "done"
    transcribed,              \* user items whose transcription was delivered
    audioDeltas,              \* the items of the audio deltas sent so far
    \* ---- observation of the run
    doneReceived,             \* requests whose response.done was handled
    pendingRuns,              \* call id -> times its pending closure was called
    httpFailed,               \* call ids with a rejected HTTP call
    overlap,                  \* an event was handled while a handler awaited
    drainedBytes,             \* bytes of the current assistant item's audio
                              \* that the sinks have drained
    \* ---- the engine's content parts
    partStage                 \* <<assistant item, content index>> -> the kind
                              \* of the part and how far the engine has
                              \* streamed it

clientVars == <<conversationHistory, conversationItems, functionCalls,
    pendingFunctionCalls, dynamicTools, responseInProgress, responseQueue,
    eventCounter, isAssistantResponding, isPlayingAudio, isUserSpeaking,
    inactivityTimer, audioDone, lastAssistantItemId,
    assistantAudioContentIndex, assistantAudioDurationMs,
    assistantAudioPlaybackDurationMs, truncatedAssistantItemIds, audioStream,
    speakerInstance, sent, httpTasks, sinks, process, pendingRuns>>
engineVars == <<engineActive, engineConsumed, vadResponses, callStage,
    transcribed, audioDeltas>>
observerVars == <<doneReceived, httpFailed, overlap, drainedBytes>>
vars == <<clientVars, engineVars, observerVars, partStage>>

(* ------------------------------ values --------------------------------- *)
Calls == 1 .. MaxCalls
UserItems == 1 .. MaxUserItems

AssistantItems == 1 .. MaxAssistantItems

NoItem == <<"none", 0>>
UserItemId(u) == <<"user", u>>
AssistantItemId(a) == <<"assistant", a>>
CallItemId(c) == <<"call", c>>
EventItemId(n) == <<"event", n>>

\* a part the engine has not added; a part it has added, with the number of
\* deltas streamed and whether the done event was sent
NoPart == [kind |-> "none", pieces |-> 0, done |-> FALSE]
OpenPart(kind) == [kind |-> kind, pieces |-> 0, done |-> FALSE]

Idle == <<"idle", 0>>
VadOrigin(n) == <<"vad", n>>
RequestOrigin(id) == <<"request", id>>

\* Map helpers: a Map is a function; Map.set adds or replaces a key
MapSet(m, k, v) == [x \in DOMAIN m \cup {k} |-> IF x = k THEN v ELSE m[x]]
MapDelete(m, k) == [x \in DOMAIN m \ {k} |-> m[x]]
EmptyMap == [x \in {} |-> 0]

\* pendingFunctionCalls keeps insertion order (Map.forEach): a sequence of
\* [call_id, function_name]; the closure is determined by the function name
PendingIds(p) == {p[i].call_id : i \in DOMAIN p}
PendingSet(p, callId, functionName) ==
    IF callId \in PendingIds(p)
    THEN [i \in DOMAIN p |-> IF p[i].call_id = callId
                             THEN [call_id |-> callId, function_name |-> functionName]
                             ELSE p[i]]
    ELSE Append(p, [call_id |-> callId, function_name |-> functionName])
PendingDelete(p, callId) == SelectSeq(p, LAMBDA e : e.call_id # callId)

\* an event on the socket
OutEvent(type, id, callId, tools) ==
    [type |-> type, event_id |-> id, call_id |-> callId, tools |-> tools,
     error |-> FALSE, item_id |-> NoItem, content_index |-> 0, audio_end_ms |-> 0]

\* the event_id field of an event object that has none
NoEventId == -1

\* a transcript entry
Entry(role, type, functionName, content, itemId) ==
    [role |-> role, type |-> type, function_name |-> functionName,
     content |-> content, item_id |-> itemId]

Self ==
    [conversationHistory |-> conversationHistory,
     conversationItems |-> conversationItems,
     functionCalls |-> functionCalls,
     pendingFunctionCalls |-> pendingFunctionCalls,
     dynamicTools |-> dynamicTools,
     responseInProgress |-> responseInProgress,
     responseQueue |-> responseQueue,
     eventCounter |-> eventCounter,
     isAssistantResponding |-> isAssistantResponding,
     isPlayingAudio |-> isPlayingAudio,
     isUserSpeaking |-> isUserSpeaking,
     inactivityTimer |-> inactivityTimer,
     audioDone |-> audioDone,
     lastAssistantItemId |-> lastAssistantItemId,
     assistantAudioContentIndex |-> assistantAudioContentIndex,
     assistantAudioDurationMs |-> assistantAudioDurationMs,
     assistantAudioPlaybackDurationMs |-> assistantAudioPlaybackDurationMs,
     truncatedAssistantItemIds |-> truncatedAssistantItemIds,
     audioStream |-> audioStream,
     speakerInstance |-> speakerInstance,
     sent |-> sent,
     httpTasks |-> httpTasks,
     sinks |-> sinks,
     process |-> process,
     pendingRuns |-> pendingRuns]

Commit(s) ==
    /\ conversationHistory' = s.conversationHistory
    /\ conversationItems' = s.conversationItems
    /\ functionCalls' = s.functionCalls
    /\ pendingFunctionCalls' = s.pendingFunctionCalls
    /\ dynamicTools' = s.dynamicTools
    /\ responseInProgress' = s.responseInProgress
    /\ responseQueue' = s.responseQueue
    /\ eventCounter' = s.eventCounter
    /\ isAssistantResponding' = s.isAssistantResponding
    /\ isPlayingAudio' = s.isPlayingAudio
    /\ isUserSpeaking' = s.isUserSpeaking
    /\ inactivityTimer' = s.inactivityTimer
    /\ audioDone' = s.audioDone
    /\ lastAssistantItemId' = s.lastAssistantItemId
    /\ assistantAudioContentIndex' = s.assistantAudioContentIndex
    /\ assistantAudioDurationMs' = s.assistantAudioDurationMs
    /\ assistantAudioPlaybackDurationMs' = s.assistantAudioPlaybackDurationMs
    /\ truncatedAssistantItemIds' = s.truncatedAssistantItemIds
    /\ audioStream' = s.audioStream
    /\ speakerInstance' = s.speakerInstance
    /\ sent' = s.sent
    /\ httpTasks' = s.httpTasks
    /\ sinks' = s.sinks
    /\ process' = s.process
    /\ pendingRuns' = s.pendingRuns

(* ------------------------- small helpers of the class ------------------ *)
\* generateEventId: the id is the counter's value, and the counter moves on
generateEventId(s) == [s EXCEPT !.eventCounter = @ + 1]

\* this.ws.send(JSON.stringify(event))
wsSend(s, event) == [s EXCEPT !.sent = Append(@, event)]

resetInactivityTimer(s) == [s EXCEPT !.inactivityTimer = FALSE]

startInactivityTimer(s) ==
    IF s.isPlayingAudio \/ s.isAssistantResponding \/ s.isUserSpeaking
    THEN s
    ELSE [resetInactivityTimer(s) EXCEPT !.inactivityTimer = TRUE]

handleInactivityTimeout(s) == [s EXCEPT !.process = "exited"]

getLastNMessages(s, n) ==
    LET h == s.conversationHistory
    IN  IF Len(h) <= n THEN h ELSE SubSeq(h, Len(h) - n + 1, Len(h))


(* --------------------------- Response Scheduler ------------------------ *)
\* sendResponseCreateEvent without its in-flight test: the request is written
\* to the socket whether or not a response is in progress
sendResponseCreateEventUnguarded(s, event) ==
    [wsSend(s, event) EXCEPT !.responseInProgress = TRUE]

\* src/src/index.ts:1048-1055
sendResponseCreateEvent(s, event) ==
    IF ~s.responseInProgress
    THEN [wsSend(s, event) EXCEPT !.responseInProgress = TRUE]
    ELSE [s EXCEPT !.responseQueue = Append(@, event)]

\* src/src/index.ts:710-715
handleResponseCreated(s) ==
    [resetInactivityTimer([s EXCEPT !.isAssistantResponding = TRUE])
        EXCEPT !.audioDone = FALSE, !.responseInProgress = TRUE]

\* handleResponseDone that clears the flags and leaves the queue alone
handleResponseDoneWithoutFlush(s) ==
    [s EXCEPT !.isAssistantResponding = FALSE, !.responseInProgress = FALSE]

\* src/src/index.ts:718-729
handleResponseDone(s) ==
    LET s1 == [s EXCEPT !.isAssistantResponding = FALSE,
                        !.responseInProgress = FALSE]
    IN  IF Len(s1.responseQueue) > 0
        THEN sendResponseCreateEvent(
                 [s1 EXCEPT !.responseQueue = Tail(@)], Head(s1.responseQueue))
        ELSE s1

\* the response.create event built at lines 496-500, 578-582 and 652-656
\* (call_id is not a field of the event: it records the call that asked)
ResponseCreateEvent(s, callId) ==
    OutEvent("response.create", s.eventCounter, callId, {})
requestResponse(s, callId) ==
    sendResponseCreateEvent(generateEventId(s), ResponseCreateEvent(s, callId))

(* ------------------------ Function-Call Dispatcher --------------------- *)
\* JSON.parse(functionCall.arguments) with the catch at lines 531-536: the
\* only well-formed text the engine streams is the complete one
ParseArguments(text) == IF text = ArgsFull THEN text ELSE "{}"

\* what runs after the awaited handler returns to its caller:
\*   "forEach"  the closure of line 702: pendingFunctionCalls.delete
\*   "argsDone" line 950: functionCalls.delete
\*   "none"     handleFunctionCall and handleConversationItemCreated return
Continue(s, cont, callId) ==
    CASE cont = "forEach" ->
             [s EXCEPT !.pendingFunctionCalls = PendingDelete(@, callId)]
      [] cont = "argsDone" ->
             [s EXCEPT !.functionCalls = MapDelete(@, callId)]
      [] OTHER -> s

\* axios.post(...) awaited: the call is in flight with what resumes after it
HttpTask(kind, callId, functionName, args, query, cont) ==
    [kind |-> kind, call_id |-> callId, function_name |-> functionName,
     args |-> args, query |-> query, cont |-> cont]
startHttp(s, task) == [s EXCEPT !.httpTasks = Append(@, task)]

\* the function_call_output item of lines 467-476, 549-558 and 623-632
FunctionCallOutput(s, callId, isError) ==
    [OutEvent("conversation.item.create", s.eventCounter, callId, {})
        EXCEPT !.error = isError]

\* send the output, record it in the transcript, drop the pending closure and
\* ask for a response: lines 467-500, 549-582 and 623-656
sendFunctionCallOutput(s, callId, functionName, content, isError) ==
    LET s1 == wsSend(generateEventId(s), FunctionCallOutput(s, callId, isError))
        s2 == [generateEventId(s1) EXCEPT !.conversationHistory =
                   Append(@, Entry("function", "function_call_output",
                                   functionName, content,
                                   EventItemId(s1.eventCounter)))]
        s3 == [s2 EXCEPT !.pendingFunctionCalls = PendingDelete(@, callId)]
    IN  requestResponse(s3, callId)

\* lines 395-402: the query of the tool search
RECURSIVE JoinMessages(_)
JoinMessages(msgs) ==
    IF msgs = <<>> THEN ""
    ELSE LET m == Head(msgs)
             text == IF m.role = "user" \/ m.role = "assistant"
                     THEN m.content ELSE ""
         IN  IF Len(msgs) = 1 THEN text
             ELSE text \o "\n" \o JoinMessages(Tail(msgs))

\* src/src/index.ts:393-428, up to the awaited axios.post
handleUpdateToolsList(s, callId, lastMessages, cont) ==
    startHttp(s, HttpTask("search", callId, UPDATE_TOOLS_LIST, "{}",
                          JoinMessages(lastMessages), cont))

\* updateFunctions, src/src/index.ts:1020-1029
updateFunctions(s, functionsList) ==
    wsSend(generateEventId(s),
           OutEvent("session.update", s.eventCounter, 0, functionsList))

\* src/src/index.ts:430-500, after the tool search resolved with results
ToolsWithId(results) ==
    {results[i].name : i \in {j \in DOMAIN results : results[j].hasToolId}}
\* the list pushed to the engine without the reserved entry of line 459
functionsListWithoutReserved(results) == ToolsWithId(results)
\* lines 435-459: the definitions of the results that have a tool id, then
\* updateToolListFunction
functionsList(results) == ToolsWithId(results) \cup {UPDATE_TOOLS_LIST}
UpdateToolsListResolved(s, task, results) ==
    LET s1 == [s EXCEPT !.dynamicTools = ToolsWithId(results)]
        s2 == updateFunctions(s1, functionsList(results))
    IN  sendFunctionCallOutput(s2, task.call_id, UPDATE_TOOLS_LIST,
                               "{\"message\":\"updated\"}", FALSE)

\* src/src/index.ts:501-513, after the tool search rejected: logs only
UpdateToolsListRejected(s, task) == s

\* src/src/index.ts:517-618, up to the awaited axios.post or to the return
handleDynamicFunctionCall(s, functionName, callId, cont) ==
    IF callId \notin DOMAIN s.functionCalls
    THEN Continue(s, cont, callId)
    ELSE IF functionName \notin s.dynamicTools
    THEN Continue(
             sendFunctionCallOutput(s, callId, functionName,
                                    "{\"error\":\"not found\"}", TRUE),
             cont, callId)
    ELSE startHttp(s, HttpTask("execute", callId, functionName,
                               ParseArguments(s.functionCalls[callId].arguments),
                               "", cont))

\* src/src/index.ts:620-656, after the tool execution resolved
DynamicFunctionCallResolved(s, task) ==
    sendFunctionCallOutput(s, task.call_id, task.function_name,
                           "{\"result\":1}", FALSE)

\* src/src/index.ts:657-669, after the tool execution rejected: logs only
DynamicFunctionCallRejected(s, task) == s

\* src/src/index.ts:343-385
handleFunctionCall(s, item) ==
    LET functionName == item.name
        callId == item.call_id
        s1 == [s EXCEPT !.functionCalls =
                   MapSet(@, callId, [item_id |-> item.id,
                                      function_name |-> functionName,
                                      arguments |-> ""])]
        s2 == [s1 EXCEPT !.conversationHistory =
                   Append(@, Entry("assistant", "function_call", functionName,
                                   "", item.id))]
        lastMessages == getLastNMessages(s2, LastN)
    IN  IF functionName = UPDATE_TOOLS_LIST
        THEN IF Len(lastMessages) > 0
             THEN handleUpdateToolsList(s2, callId, lastMessages, "none")
             ELSE [s2 EXCEPT !.pendingFunctionCalls =
                       PendingSet(@, callId, functionName)]
        ELSE [s2 EXCEPT !.pendingFunctionCalls =
                  PendingSet(@, callId, functionName)]

\* the closures stored at lines 374-376 and 381-383, called at line 703
runPendingFunctionCall(s, p) ==
    LET s1 == [s EXCEPT !.pendingRuns[p.call_id] = @ + 1]
    IN  IF p.function_name = UPDATE_TOOLS_LIST
        THEN handleUpdateToolsList(s1, p.call_id,
                                   getLastNMessages(s1, LastN), "forEach")
        ELSE handleDynamicFunctionCall(s1, p.function_name, p.call_id, "forEach")

\* pendingFunctionCalls.forEach of lines 702-705: every closure is called in
\* insertion order and runs up to its first pending await
RECURSIVE forEachPending(_, _)
forEachPending(s, entries) ==
    IF entries = <<>> THEN s
    ELSE forEachPending(runPendingFunctionCall(s, Head(entries)), Tail(entries))

\* src/src/index.ts:926-933
handleResponseFunctionCallArgumentsDelta(s, callId, delta) ==
    IF callId \in DOMAIN s.functionCalls
    THEN [s EXCEPT !.functionCalls[callId].arguments = @ \o delta]
    ELSE s

\* src/src/index.ts:936-953
handleResponseFunctionCallArgumentsDone(s, callId, argumentsStr) ==
    IF callId \in DOMAIN s.functionCalls
    THEN LET s1 == [s EXCEPT !.functionCalls[callId].arguments = argumentsStr]
             functionName == s1.functionCalls[callId].function_name
         IN  IF functionName # UPDATE_TOOLS_LIST
             THEN handleDynamicFunctionCall(s1, functionName, callId, "argsDone")
             ELSE s1
    ELSE s


(* --------------------------- Conversation Store ------------------------ *)
\* an item as the engine sends it; content is the array of parts, <<>> when
\* the item carries none
Item(id, type, role, name, callId, content) ==
    [id |-> id, type |-> type, role |-> role, name |-> name,
     call_id |-> callId, content |-> content]
Part(type, text, transcript) ==
    [type |-> type, text |-> text, transcript |-> transcript]

\* extractContent looking at the first part only
extractFirstPart(contentArray) ==
    IF contentArray = <<>> THEN ""
    ELSE Head(contentArray).text \o Head(contentArray).transcript

\* src/src/index.ts:961-976
RECURSIVE extractContent(_)
extractContent(contentArray) ==
    IF contentArray = <<>> THEN ""
    ELSE LET contentPart == Head(contentArray)
             piece ==
                 CASE contentPart.type = "text" /\ contentPart.text # "" ->
                          contentPart.text
                   [] contentPart.type = "input_audio" /\ contentPart.transcript # "" ->
                          contentPart.transcript
                   [] contentPart.type = "input_text" /\ contentPart.text # "" ->
                          contentPart.text
                   [] contentPart.type = "audio" /\ contentPart.transcript # "" ->
                          contentPart.transcript
                   [] OTHER -> ""
         IN  piece \o extractContent(Tail(contentArray))

\* conversationHistory.findIndex(msg => msg.item_id === itemId); 0 for -1
findIndex(history, itemId) ==
    LET hits == {i \in DOMAIN history : history[i].item_id = itemId}
    IN  IF hits = {} THEN 0 ELSE CHOOSE i \in hits : \A j \in hits : i <= j

\* putContent without the lookup: an entry is added every time
putContentAppending(s, itemId, role, content) ==
    [s EXCEPT !.conversationHistory =
         Append(@, Entry(role, "message", "", content, itemId))]

\* lines 684-695, 768-779 and 809-820: update the entry of the item, or add one
putContent(s, itemId, role, content) ==
    LET index == findIndex(s.conversationHistory, itemId)
    IN  IF index # 0
        THEN [s EXCEPT !.conversationHistory[index].content = content]
        ELSE [s EXCEPT !.conversationHistory =
                  Append(@, Entry(role, "message", "", content, itemId))]

\* src/src/index.ts:303-340
handleConversationItemCreated(s, item) ==
    LET s1 == [s EXCEPT !.conversationItems = MapSet(@, item.id, item)]
    IN  IF item.type = "function_call"
        THEN handleFunctionCall(s1, item)
        ELSE IF item.role = "assistant"
        THEN [resetInactivityTimer(s1) EXCEPT
                 !.lastAssistantItemId = item.id,
                 !.assistantAudioContentIndex = 0,
                 !.assistantAudioDurationMs = 0,
                 !.assistantAudioPlaybackDurationMs = 0,
                 !.truncatedAssistantItemIds = {},
                 !.conversationHistory =
                     Append(@, Entry(item.role, "message", "", "", item.id))]
        ELSE IF item.role = "user"
        THEN [resetInactivityTimer(s1) EXCEPT
                 !.conversationHistory =
                     Append(@, Entry(item.role, "message", "", "", item.id))]
        ELSE s1

\* src/src/index.ts:673-707
handleInputAudioTranscriptionCompleted(s, itemId, contentIndex, transcript) ==
    IF itemId \notin DOMAIN s.conversationItems
    THEN s
    ELSE LET item == s.conversationItems[itemId]
             s1 == IF Len(item.content) > contentIndex
                   THEN [s EXCEPT !.conversationItems[itemId]
                                     .content[contentIndex + 1].transcript = transcript]
                   ELSE s
             content == extractContent(s1.conversationItems[itemId].content)
             s2 == putContent(s1, itemId, item.role, content)
         IN  forEachPending(s2, s2.pendingFunctionCalls)

\* {} as pushed at line 740: a part with no type and no field
EmptyPart == Part("", "", "")

\* while (item.content.length <= contentIndex) item.content.push({})
RECURSIVE growContent(_, _)
growContent(content, contentIndex) ==
    IF Len(content) > contentIndex THEN content
    ELSE growContent(Append(content, EmptyPart), contentIndex)

\* src/src/index.ts:732-744
handleResponseContentPartAdded(s, itemId, contentIndex, part) ==
    IF itemId \notin DOMAIN s.conversationItems
    THEN s
    ELSE [s EXCEPT !.conversationItems[itemId].content =
              [growContent(@, contentIndex) EXCEPT ![contentIndex + 1] = part]]

\* item && item.content && item.content.length > contentIndex
hasSlot(s, itemId, contentIndex) ==
    /\ itemId \in DOMAIN s.conversationItems
    /\ Len(s.conversationItems[itemId].content) > contentIndex

\* src/src/index.ts:747-756
handleResponseTextDelta(s, itemId, contentIndex, delta) ==
    IF hasSlot(s, itemId, contentIndex)
    THEN [s EXCEPT !.conversationItems[itemId].content[contentIndex + 1].text =
              @ \o delta]
    ELSE s

\* handleResponseTextDone adding the final text to the accumulated one
handleResponseTextDoneAppending(s, itemId, contentIndex, text) ==
    IF hasSlot(s, itemId, contentIndex)
    THEN LET s1 == [s EXCEPT !.conversationItems[itemId]
                                 .content[contentIndex + 1].text = @ \o text]
             item == s1.conversationItems[itemId]
         IN  putContent(s1, itemId, item.role, extractContent(item.content))
    ELSE s

\* src/src/index.ts:759-785
handleResponseTextDone(s, itemId, contentIndex, text) ==
    IF hasSlot(s, itemId, contentIndex)
    THEN LET s1 == [s EXCEPT !.conversationItems[itemId]
                                 .content[contentIndex + 1].text = text]
             item == s1.conversationItems[itemId]
         IN  putContent(s1, itemId, item.role, extractContent(item.content))
    ELSE s

\* src/src/index.ts:788-797
handleResponseAudioTranscriptDelta(s, itemId, contentIndex, delta) ==
    IF hasSlot(s, itemId, contentIndex)
    THEN [s EXCEPT !.conversationItems[itemId]
                       .content[contentIndex + 1].transcript = @ \o delta]
    ELSE s

\* src/src/index.ts:800-826
handleResponseAudioTranscriptDone(s, itemId, contentIndex, transcript) ==
    IF hasSlot(s, itemId, contentIndex)
    THEN LET s1 == [s EXCEPT !.conversationItems[itemId]
                                 .content[contentIndex + 1].transcript = transcript]
             item == s1.conversationItems[itemId]
         IN  putContent(s1, itemId, item.role, extractContent(item.content))
    ELSE s

(* --------------------- Audio Duplex Pipeline, barge-in ----------------- *)
\* the playback format of lines 847-851 and the conversion of lines 858, 886
BytesPerSample == 2
SampleRate == 24000
\* durations are kept exactly, in ticks of 1/48 ms: one byte lasts one tick
TicksPerMs == (BytesPerSample * SampleRate) \div 1000
\* (length / 2 / 24000) * 1000 ms, in ticks
DurationTicks(length) ==
    (length * 1000 * TicksPerMs) \div (BytesPerSample * SampleRate)
\* Math.round of a duration in ticks, in ms: halves round up
MathRound(ticks) == (2 * ticks + TicksPerMs) \div (2 * TicksPerMs)

\* a PassThrough piped into a Speaker (lines 844-854)
\*   buffered      bytes written to the stream and not yet drained
\*   ended         audioStream.end() was called
\*   speakerEnded  speakerInstance.end() was called
\*   closed        the speaker has reported close or error
\*   queue         the buffer's bytes in order, as <<assistant item, bytes>>
\*                 for each delta written and not yet wholly drained
NewSink == [buffered |-> 0, ended |-> FALSE, speakerEnded |-> FALSE,
            closed |-> FALSE, queue |-> <<>>]

\* audioStream.write(audioDelta), line 882: a write after end() raises an
\* 'error' event nobody listens to on the stream, which ends the process
streamWrite(s, length) ==
    IF s.sinks[s.audioStream].ended
    THEN [s EXCEPT !.process = "crashed"]
    ELSE [s EXCEPT !.sinks[s.audioStream].buffered = @ + length]

\* src/src/index.ts:829-888
handleResponseAudioDelta(s, itemId, length) ==
    IF itemId \in s.truncatedAssistantItemIds
    THEN s
    ELSE LET s1 == IF ~s.isPlayingAudio
                   THEN [s EXCEPT !.isPlayingAudio = TRUE,
                                  !.sinks = Append(@, NewSink),
                                  !.audioStream = Len(s.sinks) + 1,
                                  !.speakerInstance = Len(s.sinks) + 1]
                   ELSE s
             s2 == IF s1.audioStream # 0 /\ s1.speakerInstance # 0
                   THEN streamWrite(s1, length)
                   ELSE s1
         IN  [s2 EXCEPT !.assistantAudioDurationMs = @ + DurationTicks(length)]

\* the 'data' listener of lines 857-860, for a chunk the stream hands on
audioStreamOnData(s, length) ==
    [s EXCEPT !.assistantAudioPlaybackDurationMs = @ + DurationTicks(length)]

\* the 'close' listener of lines 863-868 and the 'error' one of lines 871-877
speakerOnClose(s) ==
    startInactivityTimer([s EXCEPT !.isPlayingAudio = FALSE,
                                   !.speakerInstance = 0,
                                   !.audioStream = 0])

\* src/src/index.ts:891-896
handleResponseAudioDone(s) ==
    LET s1 == [s EXCEPT !.audioDone = TRUE]
    IN  IF s1.audioStream # 0
        THEN [s1 EXCEPT !.sinks[s1.audioStream].ended = TRUE]
        ELSE s1

\* src/src/index.ts:1032-1045
truncateAssistantSpeech(s, itemId, contentIndex) ==
    LET audioEndMs == MathRound(s.assistantAudioPlaybackDurationMs)
        event == [OutEvent("conversation.item.truncate", s.eventCounter, 0, {})
                     EXCEPT !.item_id = itemId,
                            !.content_index = contentIndex,
                            !.audio_end_ms = audioEndMs]
    IN  [wsSend(generateEventId(s), event)
            EXCEPT !.truncatedAssistantItemIds = @ \cup {itemId}]

\* src/src/index.ts:979-994
stopAudioPlayback(s) ==
    LET s1 == [s EXCEPT !.isPlayingAudio = FALSE, !.audioDone = TRUE]
        s2 == IF s1.audioStream # 0
              THEN [s1 EXCEPT !.sinks[s1.audioStream].ended = TRUE,
                              !.audioStream = 0]
              ELSE s1
        s3 == IF s2.speakerInstance # 0
              THEN [s2 EXCEPT !.sinks[s2.speakerInstance].speakerEnded = TRUE,
                              !.speakerInstance = 0]
              ELSE s2
    IN  startInactivityTimer(s3)

\* handleInputAudioBufferSpeechStarted that truncates and lets playback go on
handleSpeechStartedWithoutStop(s) ==
    LET s1 == [s EXCEPT !.isUserSpeaking = TRUE]
        s2 == IF s1.isPlayingAudio /\ s1.lastAssistantItemId # NoItem
              THEN truncateAssistantSpeech(s1, s1.lastAssistantItemId,
                                           s1.assistantAudioContentIndex)
              ELSE s1
    IN  resetInactivityTimer(s2)

\* src/src/index.ts:899-910
handleInputAudioBufferSpeechStarted(s) ==
    LET s1 == [s EXCEPT !.isUserSpeaking = TRUE]
        s2 == IF s1.isPlayingAudio /\ s1.lastAssistantItemId # NoItem
              THEN stopAudioPlayback(
                       truncateAssistantSpeech(s1, s1.lastAssistantItemId,
                                               s1.assistantAudioContentIndex))
              ELSE s1
    IN  resetInactivityTimer(s2)

\* src/src/index.ts:913-917
handleInputAudioBufferSpeechStopped(s) ==
    startInactivityTimer([s EXCEPT !.isUserSpeaking = FALSE])

\* src/src/index.ts:920-923
handleConversationItemTruncated(s, itemId) ==
    [s EXCEPT !.truncatedAssistantItemIds = @ \cup {itemId}]


(* ------------------------------- Init ---------------------------------- *)
\* the session.update of setupSession, src/src/index.ts:175-195
InitialSessionUpdate == OutEvent("session.update", 0, 0, {UPDATE_TOOLS_LIST})

\* the object after its constructor (lines 55-122) and, once the socket has
\* opened, setupSession (lines 156-196): the first event id is taken
Init ==
    /\ conversationHistory = <<>>
    /\ conversationItems = EmptyMap
    /\ functionCalls = EmptyMap
    /\ pendingFunctionCalls = <<>>
    /\ dynamicTools = {}
    /\ responseInProgress = FALSE
    /\ responseQueue = <<>>
    /\ eventCounter = 1
    /\ isAssistantResponding = FALSE
    /\ isPlayingAudio = FALSE
    /\ isUserSpeaking = FALSE
    /\ inactivityTimer = FALSE
    /\ audioDone = FALSE
    /\ lastAssistantItemId = NoItem
    /\ assistantAudioContentIndex = 0
    /\ assistantAudioDurationMs = 0
    /\ assistantAudioPlaybackDurationMs = 0
    /\ truncatedAssistantItemIds = {}
    /\ audioStream = 0
    /\ speakerInstance = 0
    /\ sent = <<InitialSessionUpdate>>
    /\ httpTasks = <<>>
    /\ sinks = <<>>
    /\ process = "running"
    /\ engineActive = Idle
    /\ engineConsumed = 0
    /\ vadResponses = 0
    /\ callStage = [c \in Calls |-> "none"]
    /\ transcribed = {}
    /\ audioDeltas = <<>>
    /\ doneReceived = {}
    /\ pendingRuns = [c \in Calls |-> 0]
    /\ httpFailed = {}
    /\ overlap = FALSE
    /\ drainedBytes = 0
    /\ partStage = [x \in AssistantItems \X ContentIndexes |-> NoPart]

(* ------------------------------ actions -------------------------------- *)
\* ws.on("message") and handleEvent, src/src/index.ts:102-105 and 257-295:
\* the handler of the event runs at once, up to its first pending await,
\* whether or not an earlier handler is still awaiting
Dispatch(s) ==
    /\ process = "running"
    /\ Len(s.httpTasks) <= MaxHttp
    /\ Len(s.sinks) <= MaxSinks
    /\ Commit(s)
    /\ overlap' = (overlap \/ httpTasks # <<>>)

\* a callback that is not an inbound event: an HTTP completion, a sink event,
\* the timer
Resume(s) ==
    /\ process = "running"
    /\ Len(s.httpTasks) <= MaxHttp
    /\ Commit(s)
    /\ overlap' = overlap

Min(a, b) == IF a <= b THEN a ELSE b

\* a sink's queue after its first n bytes were drained
RECURSIVE DropBytes(_, _)
DropBytes(queue, n) ==
    IF n = 0 \/ queue = <<>> THEN queue
    ELSE LET head == Head(queue)
         IN  IF head[2] > n
             THEN <<(<<head[1], head[2] - n>>)>> \o Tail(queue)
             ELSE DropBytes(Tail(queue), n - head[2])

\* how many of the first n bytes of a sink's queue are audio of item a
RECURSIVE BytesOf(_, _, _)
BytesOf(queue, n, a) ==
    IF n = 0 \/ queue = <<>> THEN 0
    ELSE LET head == Head(queue)
             taken == Min(head[2], n)
         IN  (IF head[1] = a THEN taken ELSE 0)
                 + BytesOf(Tail(queue), n - taken, a)

RemoveAt(seq, i) == SubSeq(seq, 1, i - 1) \o SubSeq(seq, i + 1, Len(seq))

\* the response.create events on the socket, in the order written
ResponseCreates(events) == SelectSeq(events, LAMBDA e : e.type = "response.create")

CreatedUserItems == {u \in UserItems : UserItemId(u) \in DOMAIN conversationItems}
CreatedAssistantItems ==
    {a \in AssistantItems : AssistantItemId(a) \in DOMAIN conversationItems}

\* conversation.item.created of a user message: one audio part, no transcript
UserItemCreated(u) ==
    /\ u = Cardinality(CreatedUserItems) + 1
    /\ Dispatch(handleConversationItemCreated(Self,
           Item(UserItemId(u), "message", "user", "", 0,
                <<Part("input_audio", "", "")>>)))
    /\ UNCHANGED <<engineVars, doneReceived, httpFailed, drainedBytes, partStage>>

\* conversation.item.input_audio_transcription.completed of a created item
TranscriptionCompleted(u) ==
    /\ u \in CreatedUserItems \ transcribed
    /\ Dispatch(handleInputAudioTranscriptionCompleted(Self, UserItemId(u), 0,
                                                       Utterance))
    /\ transcribed' = transcribed \cup {u}
    /\ UNCHANGED <<engineActive, engineConsumed, vadResponses, callStage,
                   audioDeltas, doneReceived, httpFailed, drainedBytes, partStage>>

\* conversation.item.created of a function call
FunctionCallItemCreated(c, name) ==
    /\ callStage[c] = "none"
    /\ \A d \in Calls : d < c => callStage[d] # "none"
    /\ Dispatch(handleConversationItemCreated(Self,
           Item(CallItemId(c), "function_call", "none", name, c, <<>>)))
    /\ callStage' = [callStage EXCEPT ![c] = "created"]
    /\ UNCHANGED <<engineActive, engineConsumed, vadResponses, transcribed,
                   audioDeltas, doneReceived, httpFailed, drainedBytes, partStage>>

\* response.function_call_arguments.delta
ArgumentsDelta(c) ==
    /\ callStage[c] = "created"
    /\ Dispatch(handleResponseFunctionCallArgumentsDelta(Self, c, ArgsDelta))
    /\ callStage' = [callStage EXCEPT ![c] = "streaming"]
    /\ UNCHANGED <<engineActive, engineConsumed, vadResponses, transcribed,
                   audioDeltas, doneReceived, httpFailed, drainedBytes, partStage>>

\* response.function_call_arguments.done
ArgumentsDone(c) ==
    /\ callStage[c] \in {"created", "streaming"}
    /\ Dispatch(handleResponseFunctionCallArgumentsDone(Self, c, ArgsFull))
    /\ callStage' = [callStage EXCEPT ![c] = "done"]
    /\ UNCHANGED <<engineActive, engineConsumed, vadResponses, transcribed,
                   audioDeltas, doneReceived, httpFailed, drainedBytes, partStage>>

\* the awaited tool search resolves: lines 430-500, then the caller resumes
SearchResolves(i, results) ==
    /\ i \in DOMAIN httpTasks
    /\ httpTasks[i].kind = "search"
    /\ LET task == httpTasks[i]
           s0 == [Self EXCEPT !.httpTasks = RemoveAt(@, i)]
       IN  Resume(Continue(UpdateToolsListResolved(s0, task, results),
                           task.cont, task.call_id))
    /\ UNCHANGED <<engineVars, doneReceived, httpFailed, drainedBytes, partStage>>

\* the awaited tool search rejects: lines 501-513, then the caller resumes
SearchRejects(i) ==
    /\ i \in DOMAIN httpTasks
    /\ httpTasks[i].kind = "search"
    /\ LET task == httpTasks[i]
           s0 == [Self EXCEPT !.httpTasks = RemoveAt(@, i)]
       IN  Resume(Continue(UpdateToolsListRejected(s0, task),
                           task.cont, task.call_id))
    /\ httpFailed' = httpFailed \cup {httpTasks[i].call_id}
    /\ UNCHANGED <<engineVars, doneReceived, drainedBytes, partStage>>

\* the awaited tool execution resolves: lines 620-656, then the caller resumes
ExecuteResolves(i) ==
    /\ i \in DOMAIN httpTasks
    /\ httpTasks[i].kind = "execute"
    /\ LET task == httpTasks[i]
           s0 == [Self EXCEPT !.httpTasks = RemoveAt(@, i)]
       IN  Resume(Continue(DynamicFunctionCallResolved(s0, task),
                           task.cont, task.call_id))
    /\ UNCHANGED <<engineVars, doneReceived, httpFailed, drainedBytes, partStage>>

\* the awaited tool execution rejects: lines 657-669, then the caller resumes
ExecuteRejects(i) ==
    /\ i \in DOMAIN httpTasks
    /\ httpTasks[i].kind = "execute"
    /\ LET task == httpTasks[i]
           s0 == [Self EXCEPT !.httpTasks = RemoveAt(@, i)]
       IN  Resume(Continue(DynamicFunctionCallRejected(s0, task),
                           task.cont, task.call_id))
    /\ httpFailed' = httpFailed \cup {httpTasks[i].call_id}
    /\ UNCHANGED <<engineVars, doneReceived, drainedBytes, partStage>>

\* response.created of a response the engine starts on its own
VadResponseCreated ==
    /\ engineActive = Idle
    /\ vadResponses < MaxVadResponses
    /\ Dispatch(handleResponseCreated(Self))
    /\ engineActive' = VadOrigin(vadResponses + 1)
    /\ vadResponses' = vadResponses + 1
    /\ UNCHANGED <<engineConsumed, callStage, transcribed, audioDeltas,
                   doneReceived, httpFailed, drainedBytes, partStage>>

\* response.created of the response to the oldest response.create the engine
\* has not taken yet
RequestedResponseCreated ==
    /\ engineActive = Idle
    /\ engineConsumed < Len(ResponseCreates(sent))
    /\ Dispatch(handleResponseCreated(Self))
    /\ engineActive' =
           RequestOrigin(ResponseCreates(sent)[engineConsumed + 1].event_id)
    /\ engineConsumed' = engineConsumed + 1
    /\ UNCHANGED <<vadResponses, callStage, transcribed, audioDeltas,
                   doneReceived, httpFailed, drainedBytes, partStage>>

\* response.done of the engine's active response
ResponseDone ==
    /\ engineActive # Idle
    /\ Dispatch(handleResponseDone(Self))
    /\ doneReceived' = doneReceived \cup {engineActive}
    /\ engineActive' = Idle
    /\ UNCHANGED <<engineConsumed, vadResponses, callStage, transcribed,
                   audioDeltas, httpFailed, drainedBytes, partStage>>

\* conversation.item.created of an assistant message
AssistantItemCreated(a) ==
    /\ a = Cardinality(CreatedAssistantItems) + 1
    /\ Dispatch(handleConversationItemCreated(Self,
           Item(AssistantItemId(a), "message", "assistant", "", 0, <<>>)))
    /\ drainedBytes' = 0
    /\ UNCHANGED <<engineVars, doneReceived, httpFailed, partStage>>

\* the sinks of s, the bytes a delta of item a added to a buffer entered in
\* that buffer's queue
QueueWritten(s, a) ==
    [s EXCEPT !.sinks = [i \in DOMAIN s.sinks |->
        LET before == IF i \in DOMAIN sinks THEN sinks[i].buffered ELSE 0
            added == s.sinks[i].buffered - before
        IN  IF added > 0
            THEN [s.sinks[i] EXCEPT !.queue = Append(@, <<a, added>>)]
            ELSE s.sinks[i]]]

\* response.audio.delta for an item the engine has created
AudioDelta(a, length) ==
    /\ a \in CreatedAssistantItems
    /\ Len(audioDeltas) < MaxAudioDeltas
    /\ Dispatch(QueueWritten(
           handleResponseAudioDelta(Self, AssistantItemId(a), length), a))
    /\ audioDeltas' = Append(audioDeltas, a)
    /\ UNCHANGED <<engineActive, engineConsumed, vadResponses, callStage,
                   transcribed, doneReceived, httpFailed, drainedBytes, partStage>>

\* response.audio.done
AudioDone ==
    /\ CreatedAssistantItems # {}
    /\ Dispatch(handleResponseAudioDone(Self))
    /\ UNCHANGED <<engineVars, doneReceived, httpFailed, drainedBytes, partStage>>

\* input_audio_buffer.speech_started: the engine hears the user begin
SpeechStarted ==
    /\ ~isUserSpeaking
    /\ Dispatch(handleInputAudioBufferSpeechStarted(Self))
    /\ UNCHANGED <<engineVars, doneReceived, httpFailed, drainedBytes, partStage>>

\* input_audio_buffer.speech_stopped: the engine hears the user end
SpeechStopped ==
    /\ isUserSpeaking
    /\ Dispatch(handleInputAudioBufferSpeechStopped(Self))
    /\ UNCHANGED <<engineVars, doneReceived, httpFailed, drainedBytes, partStage>>

\* conversation.item.truncated: the engine's answer to a truncate
ItemTruncated(a) ==
    /\ \E i \in DOMAIN sent : /\ sent[i].type = "conversation.item.truncate"
                              /\ sent[i].item_id = AssistantItemId(a)
    /\ Dispatch(handleConversationItemTruncated(Self, AssistantItemId(a)))
    /\ UNCHANGED <<engineVars, doneReceived, httpFailed, drainedBytes, partStage>>

\* sink i hands a chunk of its buffer on to the speaker: the 'data' listener
\* of the stream runs, whatever became of the fields that pointed to it
StreamData(i, length) ==
    /\ i \in DOMAIN sinks
    /\ ~sinks[i].closed
    /\ sinks[i].buffered >= length
    /\ Resume(audioStreamOnData(
           [Self EXCEPT !.sinks[i].buffered = @ - length,
                        !.sinks[i].queue = DropBytes(@, length)], length))
    /\ drainedBytes' = drainedBytes
           + BytesOf(sinks[i].queue, length, Cardinality(CreatedAssistantItems))
    /\ UNCHANGED <<engineVars, doneReceived, httpFailed, partStage>>

\* the speaker of sink i reports close: its buffer has drained after end(),
\* or the speaker itself was ended
SpeakerClose(i) ==
    /\ i \in DOMAIN sinks
    /\ ~sinks[i].closed
    /\ \/ sinks[i].ended /\ sinks[i].buffered = 0
       \/ sinks[i].speakerEnded
    /\ Resume(speakerOnClose([Self EXCEPT !.sinks[i].closed = TRUE]))
    /\ UNCHANGED <<engineVars, doneReceived, httpFailed, drainedBytes, partStage>>

\* the speaker of sink i reports an error
SpeakerError(i) ==
    /\ i \in DOMAIN sinks
    /\ ~sinks[i].closed
    /\ Resume(speakerOnClose([Self EXCEPT !.sinks[i].closed = TRUE]))
    /\ UNCHANGED <<engineVars, doneReceived, httpFailed, drainedBytes, partStage>>

\* the timeout scheduled at lines 244-246 expires
TimerFires ==
    /\ inactivityTimer
    /\ Resume(handleInactivityTimeout(Self))
    /\ UNCHANGED <<engineVars, doneReceived, httpFailed, drainedBytes, partStage>>

\* response.content_part.added: the engine opens a part of an assistant item
ContentPartAdded(a, k, kind) ==
    /\ a \in CreatedAssistantItems
    /\ partStage[<<a, k>>] = NoPart
    /\ Dispatch(handleResponseContentPartAdded(Self, AssistantItemId(a), k,
                                               Part(kind, "", "")))
    /\ partStage' = [partStage EXCEPT ![<<a, k>>] = OpenPart(kind)]
    /\ UNCHANGED <<engineVars, doneReceived, httpFailed, drainedBytes>>

\* the next delta of an open part of the given kind
NextPiece(a, k, kind) ==
    /\ partStage[<<a, k>>].kind = kind
    /\ ~partStage[<<a, k>>].done
    /\ partStage[<<a, k>>].pieces < Len(Pieces)
    /\ partStage' = [partStage EXCEPT ![<<a, k>>].pieces = @ + 1]
\* the done event of a part whose deltas have all been sent
LastPiece(a, k, kind) ==
    /\ partStage[<<a, k>>].kind = kind
    /\ ~partStage[<<a, k>>].done
    /\ partStage[<<a, k>>].pieces = Len(Pieces)
    /\ partStage' = [partStage EXCEPT ![<<a, k>>].done = TRUE]

\* response.text.delta
TextDelta(a, k) ==
    /\ NextPiece(a, k, "text")
    /\ Dispatch(handleResponseTextDelta(Self, AssistantItemId(a), k,
                                        Pieces[partStage[<<a, k>>].pieces + 1]))
    /\ UNCHANGED <<engineVars, doneReceived, httpFailed, drainedBytes>>

\* response.text.done
TextDone(a, k) ==
    /\ LastPiece(a, k, "text")
    /\ Dispatch(handleResponseTextDone(Self, AssistantItemId(a), k, WholeText))
    /\ UNCHANGED <<engineVars, doneReceived, httpFailed, drainedBytes>>

\* response.audio_transcript.delta
AudioTranscriptDelta(a, k) ==
    /\ NextPiece(a, k, "audio")
    /\ Dispatch(handleResponseAudioTranscriptDelta(Self, AssistantItemId(a), k,
                     Pieces[partStage[<<a, k>>].pieces + 1]))
    /\ UNCHANGED <<engineVars, doneReceived, httpFailed, drainedBytes>>

\* response.audio_transcript.done
AudioTranscriptDone(a, k) ==
    /\ LastPiece(a, k, "audio")
    /\ Dispatch(handleResponseAudioTranscriptDone(Self, AssistantItemId(a), k,
                                                  WholeText))
    /\ UNCHANGED <<engineVars, doneReceived, httpFailed, drainedBytes>>

\* the first delta of a part whose response.content_part.added has not been
\* handled: the engine counts the part as open from here on
FirstPieceUnannounced(a, k, kind) ==
    /\ a \in CreatedAssistantItems
    /\ partStage[<<a, k>>] = NoPart
    /\ partStage' = [partStage EXCEPT ![<<a, k>>] =
                         [kind |-> kind, pieces |-> 1, done |-> FALSE]]

\* response.text.delta for a part that was not announced
EarlyTextDelta(a, k) ==
    /\ FirstPieceUnannounced(a, k, "text")
    /\ Dispatch(handleResponseTextDelta(Self, AssistantItemId(a), k, Pieces[1]))
    /\ UNCHANGED <<engineVars, doneReceived, httpFailed, drainedBytes>>

\* response.audio_transcript.delta for a part that was not announced
EarlyAudioTranscriptDelta(a, k) ==
    /\ FirstPieceUnannounced(a, k, "audio")
    /\ Dispatch(handleResponseAudioTranscriptDelta(Self, AssistantItemId(a), k,
                                                   Pieces[1]))
    /\ UNCHANGED <<engineVars, doneReceived, httpFailed, drainedBytes>>

\* playback, barge-in and the inactivity timer
NextAudio ==
    \/ \E a \in AssistantItems : AssistantItemCreated(a)
    \/ \E a \in AssistantItems, length \in DeltaLengths : AudioDelta(a, length)
    \/ AudioDone
    \/ SpeechStarted
    \/ SpeechStopped
    \/ \E a \in AssistantItems : ItemTruncated(a)
    \/ \E i \in 1 .. MaxSinks, length \in ChunkLengths : StreamData(i, length)
    \/ \E i \in 1 .. MaxSinks : SpeakerClose(i)
    \/ \E i \in 1 .. MaxSinks : SpeakerError(i)
    \/ TimerFires
    \/ VadResponseCreated
    \/ ResponseDone

SpecAudio == Init /\ [][NextAudio]_vars

\* the same steps under the scheduling the runtime guarantees: a timeout that
\* is pending expires, a stream that holds bytes hands them to the speaker,
\* and a speaker whose stream has ended and drained closes. Inbound events
\* are under no obligation: the engine may fall silent.
DrainStep == \E i \in 1 .. MaxSinks, length \in ChunkLengths : StreamData(i, length)
CloseStep == \E i \in 1 .. MaxSinks : SpeakerClose(i)
SpecWatchdog ==
    /\ Init /\ [][NextAudio]_vars
    /\ WF_vars(TimerFires)
    /\ WF_vars(DrainStep)
    /\ WF_vars(CloseStep)

\* function calls, their resolution and the response scheduler, without the
\* transcription of user audio
NextSched ==
    \/ \E c \in Calls, name \in FunctionNames : FunctionCallItemCreated(c, name)
    \/ \E c \in Calls : ArgumentsDone(c)
    \/ \E i \in 1 .. MaxHttp, results \in SearchResults : SearchResolves(i, results)
    \/ \E i \in 1 .. MaxHttp : SearchRejects(i)
    \/ \E i \in 1 .. MaxHttp : ExecuteResolves(i)
    \/ \E i \in 1 .. MaxHttp : ExecuteRejects(i)
    \/ VadResponseCreated
    \/ RequestedResponseCreated
    \/ ResponseDone

SpecSched == Init /\ [][NextSched]_vars

\* function calls and the events that resolve them
NextCalls ==
    \/ \E u \in UserItems : UserItemCreated(u)
    \/ \E u \in UserItems : TranscriptionCompleted(u)
    \/ \E c \in Calls, name \in FunctionNames : FunctionCallItemCreated(c, name)
    \/ \E c \in Calls : ArgumentsDelta(c)
    \/ \E c \in Calls : ArgumentsDone(c)
    \/ \E i \in 1 .. MaxHttp, results \in SearchResults : SearchResolves(i, results)
    \/ \E i \in 1 .. MaxHttp : SearchRejects(i)
    \/ \E i \in 1 .. MaxHttp : ExecuteResolves(i)
    \/ \E i \in 1 .. MaxHttp : ExecuteRejects(i)

SpecCalls == Init /\ [][NextCalls]_vars


\* micInputStream.on("data"), src/src/index.ts:210-217: the chunk goes out as
\* an input_audio_buffer.append event built without an event_id
MicData ==
    /\ Cardinality({i \in DOMAIN sent :
                       sent[i].type = "input_audio_buffer.append"}) < MaxMicChunks
    /\ Resume(wsSend(Self, OutEvent("input_audio_buffer.append", NoEventId,
                                    0, {})))
    /\ UNCHANGED <<engineVars, doneReceived, httpFailed, drainedBytes, partStage>>

\* everything the client writes to the socket: the scheduler and the
\* microphone
NextWire == NextSched \/ MicData
SpecWire == Init /\ [][NextWire]_vars

\* what becomes of the process when the promise of handleEvent rejects and
\* nothing handles the rejection (line 104 neither awaits nor catches): the
\* runtime ends the process (Node 15 and later, by default) or only warns
UnhandledRejectionOutcomes == {"unhandledRejection", "running"}

\* conversation.item.created whose payload has no item: line 305 reads
\* item.id of undefined and throws before any field is written
ItemCreatedWithoutItem ==
    /\ \E outcome \in UnhandledRejectionOutcomes :
           Dispatch([Self EXCEPT !.process = outcome])
    /\ UNCHANGED <<engineVars, doneReceived, httpFailed, drainedBytes, partStage>>

\* the router: the function-call events and an event that makes its handler
\* throw
NextRouter == NextCalls \/ ItemCreatedWithoutItem
SpecRouter == Init /\ [][NextRouter]_vars

\* the Conversation Store: items, parts, deltas and the transcript
NextStore ==
    \/ \E u \in UserItems : UserItemCreated(u) \/ TranscriptionCompleted(u)
    \/ \E a \in AssistantItems : AssistantItemCreated(a)
    \/ \E a \in AssistantItems, k \in ContentIndexes :
           \/ \E kind \in PartKinds : ContentPartAdded(a, k, kind)
           \/ TextDelta(a, k)
           \/ TextDone(a, k)
           \/ AudioTranscriptDelta(a, k)
           \/ AudioTranscriptDone(a, k)
SpecStore == Init /\ [][NextStore]_vars

\* the parts of assistant items under an engine that may send the first delta
\* of a part ahead of the part's response.content_part.added
NextParts ==
    \/ \E a \in AssistantItems : AssistantItemCreated(a)
    \/ \E a \in AssistantItems, k \in ContentIndexes :
           \/ \E kind \in PartKinds : ContentPartAdded(a, k, kind)
           \/ TextDelta(a, k)
           \/ TextDone(a, k)
           \/ AudioTranscriptDelta(a, k)
           \/ AudioTranscriptDone(a, k)
           \/ EarlyTextDelta(a, k)
           \/ EarlyAudioTranscriptDelta(a, k)
SpecParts == Init /\ [][NextParts]_vars

(* ============================== claims ================================= *)
EventIds(events) == [i \in DOMAIN events |-> events[i].event_id]
StrictlyIncreasing(ids) ==
    \A i, j \in DOMAIN ids : i < j => ids[i] < ids[j]
Count(events, P(_)) == Cardinality({i \in DOMAIN events : P(events[i])})

\* the response.create events of the client that are outstanding: written to
\* the socket, and the response.done of the response they started not handled
Outstanding ==
    {id \in {sent[i].event_id : i \in {j \in DOMAIN sent :
                                          sent[j].type = "response.create"}} :
        RequestOrigin(id) \notin doneReceived}

\* C1: in every reachable state at most one response.create of the client is
\* outstanding, also when the engine completes responses it started on its
\* own.
C1_AtMostOneOutstanding == Cardinality(Outstanding) <= 1

\* C2: a request made while a response is in flight is queued and not
\* written; each response.done sends exactly the oldest queued request and
\* marks in-flight again, and sends nothing when the queue is empty; so the
\* requests reach the socket in the order they were made (their event ids,
\* taken when they are made, increase along the socket and then the queue).
C2_Step ==
    LET wire == ResponseCreates(sent)
        wire2 == ResponseCreates(sent')
        done == doneReceived' # doneReceived
    IN  /\ (responseInProgress /\ ~done) => wire2 = wire
        /\ (done /\ responseQueue # <<>>) =>
               /\ wire2 = Append(wire, Head(responseQueue))
               /\ responseQueue' = Tail(responseQueue)
               /\ responseInProgress'
        /\ (done /\ responseQueue = <<>>) =>
               /\ wire2 = wire
               /\ ~responseInProgress'
        /\ StrictlyIncreasing(EventIds(wire2 \o responseQueue'))
C2_QueuedRequestsFifo == [][C2_Step]_vars

\* C2 witness (Scenario D): two requests were made while a response was in
\* flight; the first has been written after a response.done, after the
\* output of the second call, and the second still waits in the queue.
C2_Witness ==
    /\ doneReceived # {}
    /\ Len(responseQueue) = 1
    /\ responseInProgress
    /\ \E i, j \in DOMAIN sent :
           /\ i < j
           /\ sent[j].type = "response.create"
           /\ sent[i].type = "conversation.item.create"
           /\ sent[i].event_id > sent[j].event_id

IsOutputFor(c, e) == e.type = "conversation.item.create" /\ e.call_id = c
IsRequestFor(c, e) == e.type = "response.create" /\ e.call_id = c
OutputsFor(c) == Count(sent, LAMBDA e : IsOutputFor(c, e))
RequestsFor(c) ==
    Count(sent, LAMBDA e : IsRequestFor(c, e))
        + Count(responseQueue, LAMBDA e : IsRequestFor(c, e))

\* C3: for every call_id the client sends at most one function_call_output and
\* makes at most one response-generation request, whatever the interleaving
\* of item-created, arguments and transcription-completed events.
C3_AtMostOneOutputPerCall ==
    \A c \in Calls : OutputsFor(c) <= 1 /\ RequestsFor(c) <= 1

\* C4: when the tool search or the tool execution of a call fails, an error
\* function_call_output for that call_id has been sent and a response has
\* been requested for it.
C4_FailureSurfaced ==
    \A c \in httpFailed :
        /\ \E i \in DOMAIN sent : IsOutputFor(c, sent[i]) /\ sent[i].error
        /\ RequestsFor(c) >= 1


Abs(x) == IF x < 0 THEN -x ELSE x
\* ms is a millisecond nearest to the duration of `bytes` bytes of 16-bit
\* 24 kHz mono audio, bytes / 2 / 24000 * 1000 ms
NearestMs(ms, bytes) ==
    2 * Abs(ms * BytesPerSample * SampleRate - bytes * 1000)
        <= BytesPerSample * SampleRate

\* C5: a truncation carries as audio_end_ms the played duration at that
\* moment, the bytes of the current assistant item that the sinks have
\* drained at bytes / 2 / 24000 * 1000 ms, rounded to the nearest millisecond
\* (and not the received duration).
C5_Step ==
    \A i \in DOMAIN sent' :
        (i \notin DOMAIN sent /\ sent'[i].type = "conversation.item.truncate")
            => NearestMs(sent'[i].audio_end_ms, drainedBytes)
C5_TruncateAtPlayed == [][C5_Step]_vars

\* C6: the played duration never exceeds the received duration, and within
\* one assistant turn the played duration never decreases.
C6_PlayedAtMostReceived ==
    /\ [](assistantAudioPlaybackDurationMs <= assistantAudioDurationMs)
    /\ [][lastAssistantItemId' = lastAssistantItemId =>
              assistantAudioPlaybackDurationMs' >= assistantAudioPlaybackDurationMs]_vars

\* C7: the inactivity timeout never runs in a state where the client is
\* playing audio, the assistant is responding or the user is speaking.
C7_NoTimeoutWhileActive ==
    process = "exited" =>
        ~(isPlayingAudio \/ isAssistantResponding \/ isUserSpeaking)

\* C8: no inbound event is handled while the handler of an earlier event is
\* suspended at an awaited HTTP call.
C8_OneEventAtATime == ~overlap

TranscribedUtterance(history) ==
    \E i \in DOMAIN history :
        history[i].role = "user" /\ history[i].content # ""

\* C9: when an update_tools_list call is created while the transcript holds no
\* transcribed user utterance, the step that handles it records a pending
\* invocation under its call_id and starts no tool search and sends nothing.
C9_Step ==
    \A c \in Calls :
        ( /\ c \notin DOMAIN functionCalls
          /\ c \in DOMAIN functionCalls'
          /\ functionCalls'[c].function_name = UPDATE_TOOLS_LIST
          /\ ~TranscribedUtterance(conversationHistory) )
        => /\ c \in PendingIds(pendingFunctionCalls')
           /\ httpTasks' = httpTasks
           /\ sent' = sent
C9_RefreshDeferred == [][C9_Step]_vars

\* the pending closure of call c is still running: its HTTP call is awaited
PendingRunAwaiting(c) ==
    \E i \in DOMAIN httpTasks :
        httpTasks[i].call_id = c /\ httpTasks[i].cont = "forEach"

\* C10: a pending invocation runs at most once, and once it has run to its
\* end it is no longer in the pending set.
C10_PendingRunsOnce ==
    \A c \in Calls :
        /\ pendingRuns[c] <= 1
        /\ (pendingRuns[c] >= 1 /\ ~PendingRunAwaiting(c))
               => c \notin PendingIds(pendingFunctionCalls)

\* call c is a call of a dynamic tool that the client has started to resolve:
\* its execute request is in flight or an output for it is on the socket
DynamicCall(c) ==
    /\ CallItemId(c) \in DOMAIN conversationItems
    /\ conversationItems[CallItemId(c)].name # UPDATE_TOOLS_LIST
ResolutionStarted(c) ==
    \/ \E i \in DOMAIN httpTasks :
           httpTasks[i].call_id = c /\ httpTasks[i].kind = "execute"
    \/ OutputsFor(c) >= 1

\* C11: a call of a dynamic tool is resolved (registry lookup, execute
\* request, output) only after response.function_call_arguments.done for its
\* call_id was received, never from an empty or partial arguments string.
C11_ResolvedAfterArgumentsDone ==
    \A c \in Calls :
        (DynamicCall(c) /\ ResolutionStarted(c)) => callStage[c] = "done"

\* the first n deltas of a part, concatenated in the order they arrived
RECURSIVE PiecesJoined(_)
PiecesJoined(n) == IF n = 0 THEN "" ELSE PiecesJoined(n - 1) \o Pieces[n]

\* the field of slot (a, k) that the deltas of its kind accumulate in
SlotField(a, k) ==
    LET part == conversationItems[AssistantItemId(a)].content[k + 1]
    IN  IF partStage[<<a, k>>].kind = "text" THEN part.text ELSE part.transcript

RECURSIVE JoinFields(_)
JoinFields(content) ==
    IF content = <<>> THEN ""
    ELSE Head(content).text \o Head(content).transcript
             \o JoinFields(Tail(content))

\* the transcript has an entry for the item, with this content
EntryHolds(history, itemId, content) ==
    /\ \E i \in DOMAIN history : history[i].item_id = itemId
    /\ \A i \in DOMAIN history :
           history[i].item_id = itemId => history[i].content = content

\* C13: right after a response.text.done or response.audio_transcript.done of
\* a known item, the transcript entry of that item has as content the
\* non-empty text/transcript fields of the item's parts, concatenated in
\* content-index order.
C13_Step ==
    \A a \in AssistantItems, k \in ContentIndexes :
        (partStage'[<<a, k>>].done /\ ~partStage[<<a, k>>].done) =>
            EntryHolds(conversationHistory', AssistantItemId(a),
                       JoinFields(conversationItems'[AssistantItemId(a)].content))
C14_OneEntryPerItem ==
    \A i, j \in DOMAIN conversationHistory :
        conversationHistory[i].item_id = conversationHistory[j].item_id => i = j

\* C14 witness: an assistant item and a user item were created and then
\* completed by a done event and a transcription; each has its one entry,
\* with the completed content.
C14_Witness ==
    /\ \E k \in ContentIndexes : partStage[<<1, k>>].done
    /\ 1 \in transcribed
    /\ EntryHolds(conversationHistory, UserItemId(1), Utterance)
    /\ \E i \in DOMAIN conversationHistory :
           /\ conversationHistory[i].item_id = AssistantItemId(1)
           /\ conversationHistory[i].content # ""
    /\ Len(conversationHistory) = 2

\* the session.update events on the socket
SessionUpdates == {i \in DOMAIN sent : sent[i].type = "session.update"}

\* C15: every session.update the client sends, the initial one and the one
\* after each successful tool search, lists the reserved update_tools_list
\* tool, whatever the search answered.
C15_ReservedToolListed ==
    \A i \in SessionUpdates : UPDATE_TOOLS_LIST \in sent[i].tools

\* C15 witness: two searches have resolved, one with a tool that was
\* registered and one with nothing to register, and both updates are on the
\* socket after the initial one.
C15_Witness ==
    \E i, j \in SessionUpdates :
        /\ 1 < i /\ i < j
        /\ {sent[i].tools, sent[j].tools} =
               {{UPDATE_TOOLS_LIST}, {UPDATE_TOOLS_LIST, "lookup"}}

\* C16: every event on the socket carries a locally generated event id, and
\* the ids of successive events are strictly increasing, also for the
\* response.create requests that were queued and sent later.
C16_EventIdsIncrease ==
    /\ \A i \in DOMAIN sent : sent[i].event_id # NoEventId
    /\ StrictlyIncreasing(EventIds(sent))

\* the second half of C16 for the events that do carry an id
C16_IdsIncreaseAmongIdentified ==
    StrictlyIncreasing(EventIds(SelectSeq(sent, LAMBDA e : e.event_id # NoEventId)))

\* C17: a handler that throws, or whose promise rejects, does not end the
\* session: the process keeps running and goes on dispatching events.
C17_HandlerErrorContained == process # "unhandledRejection"

ActivityFlags == <<isPlayingAudio, isAssistantResponding, isUserSpeaking>>
Quiet == ~(isPlayingAudio \/ isAssistantResponding \/ isUserSpeaking)

\* C18: every step that changes isPlayingAudio, isAssistantResponding or
\* isUserSpeaking leaves an inactivity timer pending exactly when all three
\* flags are false after the step (the pending one being cancelled in every
\* case).
C18_Step == ActivityFlags' # ActivityFlags => (inactivityTimer' <=> Quiet')
C18_FlagChangeResetsTimer == [][C18_Step]_vars

\* C19: a session that stays quiet for good (nothing playing, the assistant
\* not responding, the user not speaking; the inbound events of a run are
\* finitely many) is eventually ended by the inactivity timeout.
C19_QuietSessionEnds ==
    <>[](Quiet /\ process = "running") => <>(process = "exited")

\* assistant item a has been truncated: the client has written a
\* conversation.item.truncate for it (the engine's conversation.item.truncated
\* comes only after that)
Truncated(a) ==
    \E i \in DOMAIN sent : /\ sent[i].type = "conversation.item.truncate"
                           /\ sent[i].item_id = AssistantItemId(a)

\* C20: a response.audio.delta for an assistant item that was truncated
\* before is dropped: no byte is written to a playback stream and the
\* received duration is unchanged, whatever arrived since the truncation.
C20_Step ==
    (audioDeltas' # audioDeltas /\ Truncated(audioDeltas'[Len(audioDeltas')]))
        => /\ sinks' = sinks
           /\ assistantAudioDurationMs' = assistantAudioDurationMs
C20_TruncatedDeltasDropped == [][C20_Step]_vars

\* C20 restricted to the time before the next assistant item is created
C20_DroppedUntilNextItem ==
    [][(/\ audioDeltas' # audioDeltas
        /\ lastAssistantItemId = AssistantItemId(audioDeltas'[Len(audioDeltas')]))
           => C20_Step]_vars

PlaybackState == <<isPlayingAudio, audioStream, speakerInstance, sinks>>

\* C21: the step that handles speech_started while playback is active and an
\* assistant item is current writes exactly one conversation.item.truncate,
\* for that item and content index, marks the item truncated and leaves
\* playback stopped (stream and speaker ended and discarded, isPlayingAudio
\* false); otherwise it writes nothing and leaves the playback state as it was.
C21_Step ==
    (isUserSpeaking' /\ ~isUserSpeaking) =>
        IF isPlayingAudio /\ lastAssistantItemId # NoItem
        THEN /\ Len(sent') = Len(sent) + 1
             /\ SubSeq(sent', 1, Len(sent)) = sent
             /\ sent'[Len(sent')].type = "conversation.item.truncate"
             /\ sent'[Len(sent')].item_id = lastAssistantItemId
             /\ sent'[Len(sent')].content_index = assistantAudioContentIndex
             /\ lastAssistantItemId \in truncatedAssistantItemIds'
             /\ ~isPlayingAudio'
             /\ audioStream' = 0 /\ speakerInstance' = 0
             /\ sinks'[audioStream].ended
             /\ sinks'[speakerInstance].speakerEnded
        ELSE /\ sent' = sent
             /\ PlaybackState' = PlaybackState
C21_BargeInTruncatesThenStops == [][C21_Step]_vars

\* C21 witness: a barge-in has just been handled: the user is speaking, the
\* truncate of the current item is the last event written, and the stream
\* that was playing has been ended with bytes still in it.
C21_Witness ==
    /\ isUserSpeaking /\ ~isPlayingAudio /\ audioStream = 0
    /\ sent[Len(sent)].type = "conversation.item.truncate"
    /\ sent[Len(sent)].item_id = lastAssistantItemId
    /\ \E i \in DOMAIN sinks :
           sinks[i].ended /\ sinks[i].speakerEnded /\ sinks[i].buffered > 0


HalfClosed == audioStream # 0 /\ sinks[audioStream].ended

FirstDeltaOf(a) ==
    /\ Len(audioDeltas') = Len(audioDeltas) + 1
    /\ audioDeltas'[Len(audioDeltas')] = a
    /\ \A n \in DOMAIN audioDeltas : audioDeltas[n] # a

\* C22: once response.audio.done has ended the playback stream, the first
\* audio delta of a later assistant item is not written to that stream: the
\* step opens a new stream and speaker, makes them the current ones, marks
\* playing and leaves the ended stream's buffer as it was, whether or not the
\* speaker of the ended stream has reported close.
C22_Step ==
    \A a \in 1 .. MaxAssistantItems :
        ( /\ FirstDeltaOf(a)
          /\ HalfClosed
          /\ AssistantItemId(a) \notin truncatedAssistantItemIds )
        => /\ Len(sinks') = Len(sinks) + 1
           /\ audioStream' = Len(sinks') /\ speakerInstance' = Len(sinks')
           /\ isPlayingAudio'
           /\ sinks'[audioStream].buffered = sinks[audioStream].buffered
           /\ process' = "running"
C22_NoWriteAfterAudioDone == [][C22_Step]_vars


Content(a) == conversationItems[AssistantItemId(a)].content

\* C23: a text or transcript delta for (a, k) that is handled while item a is
\* known and its content has no slot k leaves the content grown to k + 1
\* slots, the slots before k as they were or empty, and slot k holding the
\* delta in the field of its kind.
C23_Step ==
    \A a \in AssistantItems, k \in ContentIndexes :
        ( /\ partStage[<<a, k>>] = NoPart
          /\ partStage'[<<a, k>>].pieces = 1
          /\ AssistantItemId(a) \in DOMAIN conversationItems
          /\ Len(Content(a)) <= k )
        => /\ Len(Content(a)') = k + 1
           /\ \A j \in 1 .. k :
                  Content(a)'[j] = IF j <= Len(Content(a)) THEN Content(a)[j]
                                   ELSE EmptyPart
           /\ Content(a)'[k + 1] =
                  IF partStage'[<<a, k>>].kind = "text"
                  THEN Part("", Pieces[1], "")
                  ELSE Part("", "", Pieces[1])
C23_EarlyDeltaKept == [][C23_Step]_vars


\* C24: once a function_call_output for a call_id is on the socket,
\* functionCalls holds no entry for that call_id, whichever tool the call
\* names (the reserved update_tools_list included).
C24_EntryGoneAfterOutput ==
    \A c \in Calls : OutputsFor(c) >= 1 => c \notin DOMAIN functionCalls

\* the other half of the same lifecycle: an entry leaves functionCalls only
\* in a state where an output for its call_id is on the socket
C24_RemovedOnlyAfterOutput ==
    [][\A c \in Calls :
          (c \in DOMAIN functionCalls /\ c \notin DOMAIN functionCalls')
              => Count(sent', LAMBDA e : IsOutputFor(c, e)) >= 1]_vars


\* C25: when the speaker of a stream that is no longer the current one
\* reports close or error while another stream is playing, isPlayingAudio
\* stays true and the current stream and speaker stay in place.
C25_Step ==
    \A i \in DOMAIN sinks :
        ( /\ ~sinks[i].closed /\ sinks'[i].closed
          /\ isPlayingAudio /\ audioStream # 0 /\ audioStream # i )
        => /\ isPlayingAudio'
           /\ audioStream' = audioStream
           /\ speakerInstance' = speakerInstance
C25_StaleSinkKeepsPlayback == [][C25_Step]_vars


\* the audio deltas received so far for assistant item a
DeltasOf(a) == {n \in DOMAIN audioDeltas : audioDeltas[n] = a}

\* C26: a conversation.item.truncate is sent only for an assistant item for
\* which an audio delta has arrived, and its audio_end_ms is no more than the
\* duration of the audio received for that item (at most the longest delta
\* length for each delta of the item).
C26_Step ==
    \A i \in DOMAIN sent' :
        (i \notin DOMAIN sent /\ sent'[i].type = "conversation.item.truncate")
            => \E a \in AssistantItems :
                   /\ sent'[i].item_id = AssistantItemId(a)
                   /\ DeltasOf(a) # {}
                   /\ \E length \in DeltaLengths :
                          sent'[i].audio_end_ms * BytesPerSample * SampleRate
                              <= Cardinality(DeltasOf(a)) * length * 1000
C26_TruncateNamesPlayedItem == [][C26_Step]_vars


\* C27: in every state between two handlers, a response queue that holds a
\* request implies that a response is marked in flight.
C27_QueuedImpliesInFlight == responseQueue # <<>> => responseInProgress

\* C27 witness: a response.done has been handled with two requests waiting:
\* the older one was written and marked in flight by the handler itself (no
\* response.created has followed), the other still waits in the queue.
C27_Witness ==
    /\ doneReceived # {}
    /\ responseQueue # <<>>
    /\ responseInProgress
    /\ ~isAssistantResponding
    /\ Outstanding # {}

=============================================================================
